---- MODULE Spec2Model ----
(***************************************************************************)
(* Model of onlinejudge_template/analyzer/__init__.py: the lexer's error   *)
(* report, the reduction of the `items` production, and analyze() with     *)
(* zip_nodes / exnted_loop_node over integer-linear index expressions.     *)
(*                                                                         *)
(* Strings of index expressions are modelled as sequences of signed terms  *)
(* (what the characters of the string spell), simplify() as the sum of the *)
(* terms, and str() of a sympy expression as the ordered list of its       *)
(* terms.  An f-string that pastes two expression strings together is the  *)
(* concatenation of the term lists, so a missing pair of parentheses shows.*)
(***************************************************************************)
EXTENDS Integers, Sequences, FiniteSets, TLC

VARIABLES
    pc,        \* position of the modelled call: "start", "loop", "done", "error"
    node,      \* the parser node handed to analyze()
    que,       \* analyze(): the worklist `que`
    items,     \* analyze(): the accumulated siblings `items`
    step,      \* the branch the last iteration of the worklist loop took
    result,    \* the value returned (or the error raised)
    input,     \* lexer / parser: the text (characters) or the token list
    lexpos,    \* lexer: position in the text (0-based), parser: tokens consumed
    lineno,    \* lexer: lexer.lineno
    stack      \* parser: the value stack of the LR parser

vars == <<pc, node, que, items, step, result, input, lexpos, lineno, stack>>

(***************************************************************************)
(* Bounds of the model.                                                    *)
(***************************************************************************)
MaxPre == 2        \* siblings (or lines) written before the dots pair
MaxNum == 3        \* numeric literals 1..MaxNum in index expressions
MaxLen == 4        \* characters of the text given to the lexer
MaxTok == 5        \* tokens of the `items` part of a line
MaxK == 2          \* loop steps k = 0..MaxK at which a loop body is unrolled

(***************************************************************************)
(* Index expressions.                                                      *)
(***************************************************************************)
Syms == {"K", "N", "i", "j", "k"}
Keys == Syms \cup {"1"}

\* sympy prints the terms of a linear expression symbol by symbol in the
\* order of the names (upper case before lower case), the number last.
SymOrder == <<"K", "N", "i", "j", "k">>

Term(c, s) == [c |-> c, s |-> s]
Zero == [x \in Keys |-> 0]
One == Term(1, "1")

RECURSIVE SumTerms(_)
SumTerms(ts) ==
    IF ts = <<>> THEN Zero
    ELSE LET r == SumTerms(Tail(ts))
             t == Head(ts)
         IN [r EXCEPT ![t.s] = @ + t.c]

\* simplify(s): parse the string and canonicalize it.
simplify(s) == SumTerms(s)

RECURSIVE SymTerms(_, _)
SymTerms(e, n) ==
    IF n > Len(SymOrder) THEN <<>>
    ELSE (IF e[SymOrder[n]] # 0 THEN <<Term(e[SymOrder[n]], SymOrder[n])>> ELSE <<>>)
         \o SymTerms(e, n + 1)

\* str(e) of a canonical expression: its terms in sympy's printing order.
\* A positive number plus one negative multiple of a symbol prints the
\* number first ("1 - K").
Str(e) ==
    LET st == SymTerms(e, 1)
        ct == IF e["1"] # 0 THEN <<Term(e["1"], "1")>> ELSE <<>>
    IN IF st = <<>> /\ ct = <<>> THEN <<Term(0, "1")>>
       ELSE IF Len(st) = 1 /\ ct # <<>> /\ e["1"] > 0 /\ st[1].c < 0 THEN ct \o st
       ELSE st \o ct

\* The text "- {i}": the minus sign applies to the first term of i only.
MinusStr(s) == <<Term(0 - s[1].c, s[1].s)>> \o Tail(s)

\* f"{j} - {i} + 1"
StrideStr(j, i) == Str(j) \o MinusStr(Str(i)) \o <<One>>

\* f"{i} + {name}"
PlusNameStr(i, name) == Str(i) \o <<Term(1, name)>>

\* re.subn(r'\b' + name + r'\b', '(-1)', j): every occurrence of the
\* identifier becomes the parenthesized literal -1.
RECURSIVE DecrStr(_, _)
DecrStr(s, name) ==
    IF s = <<>> THEN <<>>
    ELSE (IF Head(s).s = name THEN <<Term(0 - Head(s).c, "1")>> ELSE <<Head(s)>>)
         \o DecrStr(Tail(s), name)

\* f"{size} + 1"
PlusOneStr(size) == Str(size) \o <<One>>

(***************************************************************************)
(* Format nodes (onlinejudge_template.types) and parser nodes.             *)
(***************************************************************************)
ItemNode(name, indices) == [kind |-> "Item", name |-> name, indices |-> indices]
NewlineNode == [kind |-> "Newline"]
SequenceNode(its) == [kind |-> "Sequence", items |-> its]
LoopNode(size, name, body) == [kind |-> "Loop", size |-> size, name |-> name, body |-> body]

ItemParserNode(name, indices) == [kind |-> "ItemP", name |-> name, indices |-> indices]
NewlineParserNode == [kind |-> "NewlineP"]
SequenceParserNode(its) == [kind |-> "SequenceP", items |-> its]
DotsParserNode(first, last) == [kind |-> "DotsP", first |-> first, last |-> last]

\* The error raised by zip_nodes and analyze.
SyntaxError == [kind |-> "SyntaxError"]
\* `assert name != 'z'` failing.
AssertionError == [kind |-> "AssertionError"]

IsError(r) == r.kind \in {"SyntaxError", "AssertionError"}

RECURSIVE list_used_names(_)
RECURSIVE UsedNamesOfItems(_)
UsedNamesOfItems(its) ==
    IF its = <<>> THEN {}
    ELSE list_used_names(Head(its)) \cup UsedNamesOfItems(Tail(its))

list_used_names(n) ==
    CASE n.kind = "Item" -> {n.name}
      [] n.kind = "Newline" -> {}
      [] n.kind = "Sequence" -> UsedNamesOfItems(n.items)
      [] n.kind = "Loop" -> {n.name} \cup list_used_names(n.body)

\* The single-letter namespace scanned for a loop counter: 'i', chr(ord+1), ...
Letters == <<"i", "j", "k", "l", "m", "n", "o", "p", "q", "r", "s", "t", "u", "v",
             "w", "x", "y", "z">>

\* name = 'i'; while name in used_names: assert name != 'z'; name = next.
\* Returns the letter, or "" when the assertion fails.
RECURSIVE FreshName(_, _)
FreshName(used, n) ==
    IF Letters[n] \notin used THEN Letters[n]
    ELSE IF n = Len(Letters) THEN ""
    ELSE FreshName(used, n + 1)

\* A Python assignment `r = e`: e is evaluated once and r names its value.
Bind(e, Body(_)) == CHOOSE v \in {Body(r) : r \in {e}} : TRUE

(***************************************************************************)
(* zip_nodes.  The running trip count `size` is <<>> (None) or <<e>>.      *)
(* The value is [kind |-> "Ok", node, size] or SyntaxError.                *)
(***************************************************************************)
Ok(n, size) == [kind |-> "Ok", node |-> n, size |-> size]

\* c, size = <a recursive call>; items.append(c): the head c is put before
\* the list the rest of the loop builds, unless that raised.
Prepend(c, r) == IF r.kind = "Ok" THEN Ok(<<c>> \o r.node, r.size) ELSE r

\* The loop over zip(a.indices, b.indices) of the Item/Item case; the value
\* keeps the merged indices in `node`.
RECURSIVE ZipIndices(_, _, _, _)
ZipIndices(ai, bi, name, size) ==
    IF ai = <<>> \/ bi = <<>> THEN Ok(<<>>, size)
    ELSE LET i == Head(ai)
             j == Head(bi)
         IN IF i = j
            THEN Prepend(i, ZipIndices(Tail(ai), Tail(bi), name, size))
            ELSE Bind(simplify(StrideStr(j, i)), LAMBDA stride :
                    IF size # <<>> /\ stride # size[1] THEN SyntaxError
                    ELSE Prepend(simplify(PlusNameStr(i, name)),
                                 ZipIndices(Tail(ai), Tail(bi), name,
                                            IF size = <<>> THEN <<stride>> ELSE size)))

\* The node built from the value r of the zip of the parts.
Wrap(r, Make(_)) == IF r.kind = "Ok" THEN Ok(Make(r.node), r.size) ELSE r

RECURSIVE zip_nodes(_, _, _, _)
RECURSIVE ZipItems(_, _, _, _)
\* The loop over zip(a.items, b.items) of the Sequence/Sequence case.
ZipItems(as, bs, name, size) ==
    IF as = <<>> THEN Ok(<<>>, size)
    ELSE Bind(zip_nodes(Head(as), Head(bs), name, size), LAMBDA c :
            IF c.kind # "Ok" THEN c
            ELSE Prepend(c.node, ZipItems(Tail(as), Tail(bs), name, c.size)))

zip_nodes(a, b, name, size) ==
    IF a.kind = "Item" /\ b.kind = "Item" THEN
        IF a.name # b.name \/ Len(a.indices) # Len(b.indices) THEN SyntaxError
        ELSE Bind(ZipIndices(a.indices, b.indices, name, size), LAMBDA r :
                Wrap(r, LAMBDA x : ItemNode(a.name, x)))
    ELSE IF a.kind = "Newline" /\ b.kind = "Newline" THEN Ok(NewlineNode, size)
    ELSE IF a.kind = "Sequence" /\ b.kind = "Sequence" THEN
        IF Len(a.items) # Len(b.items) THEN SyntaxError
        ELSE Bind(ZipItems(a.items, b.items, name, size), LAMBDA r :
                Wrap(r, LAMBDA x : SequenceNode(x)))
    ELSE IF a.kind = "Loop" /\ b.kind = "Loop" THEN
        IF a.size # b.size \/ a.name # b.name THEN SyntaxError
        ELSE Bind(zip_nodes(a.body, b.body, name, size), LAMBDA r :
                Wrap(r, LAMBDA x : LoopNode(a.size, a.name, x)))
    ELSE SyntaxError

(***************************************************************************)
(* exnted_loop_node.  The value is <<>> (None) or <<node>>.                *)
(***************************************************************************)
\* items.append(c): c before what the rest of the loop builds, unless the
\* rest returned None.
PrependOpt(c, r) == IF r = <<>> THEN <<>> ELSE << <<c>> \o r[1] >>

\* The node built from the optional value r of the parts.
WrapOpt(r, Make(_)) == IF r = <<>> THEN <<>> ELSE <<Make(r[1])>>

\* ExtendIndices as it would be if an index that differs were kept as it is
\* and the merge went on (a best-effort merge).
RECURSIVE ExtendIndicesBestEffort(_, _, _)
ExtendIndicesBestEffort(ai, bi, name) ==
    IF ai = <<>> \/ bi = <<>> THEN << <<>> >>
    ELSE LET i == Head(ai)
             decr_j == DecrStr(Str(Head(bi)), name)
         IN PrependOpt(IF i = simplify(decr_j) THEN simplify(PlusNameStr(i, name)) ELSE i,
                       ExtendIndicesBestEffort(Tail(ai), Tail(bi), name))

\* The loop over zip(a.indices, b.indices) of the Item/Item case: <<>> for
\* `return None`, else <<indices>>.
RECURSIVE ExtendIndices(_, _, _)
ExtendIndices(ai, bi, name) ==
    IF ai = <<>> \/ bi = <<>> THEN << <<>> >>
    ELSE LET i == Head(ai)
             decr_j == DecrStr(Str(Head(bi)), name)
         IN IF i = simplify(decr_j)
            THEN PrependOpt(simplify(PlusNameStr(i, name)),
                            ExtendIndices(Tail(ai), Tail(bi), name))
            ELSE <<>>

RECURSIVE exnted_loop_node(_, _, _)
RECURSIVE ExtendItems(_, _, _)
\* The loop over zip(a.items, b.items) of the Sequence/Sequence case.
ExtendItems(as, bs, loop) ==
    IF as = <<>> THEN << <<>> >>
    ELSE Bind(exnted_loop_node(Head(as), Head(bs), loop), LAMBDA c :
            IF c = <<>> THEN <<>>
            ELSE PrependOpt(c[1], ExtendItems(Tail(as), Tail(bs), loop)))

exnted_loop_node(a, b, loop) ==
    IF a.kind = "Item" /\ b.kind = "Item" THEN
        IF a.name # b.name \/ Len(a.indices) # Len(b.indices) THEN <<>>
        ELSE Bind(ExtendIndices(a.indices, b.indices, loop.name), LAMBDA r :
                WrapOpt(r, LAMBDA x : ItemNode(a.name, x)))
    ELSE IF a.kind = "Newline" /\ b.kind = "Newline" THEN <<NewlineNode>>
    ELSE IF a.kind = "Sequence" /\ b.kind = "Sequence" THEN
        IF Len(a.items) # Len(b.items) THEN <<>>
        ELSE Bind(ExtendItems(a.items, b.items, loop), LAMBDA r :
                WrapOpt(r, LAMBDA x : SequenceNode(x)))
    ELSE IF a.kind = "Loop" /\ b.kind = "Loop" THEN
        IF a.size # b.size \/ a.name # b.name THEN <<>>
        ELSE Bind(exnted_loop_node(a.body, b.body, loop), LAMBDA c :
                WrapOpt(c, LAMBDA x : LoopNode(a.size, a.name, x)))
    ELSE <<>>

(***************************************************************************)
(* analyze: the worklist loop of the Sequence case, one iteration at a     *)
(* time, and the whole function.                                           *)
(***************************************************************************)
\* Whether the trailing len(item.body.items) siblings are compared as a group.
GroupCase(its, item) ==
    item.body.kind = "Sequence" /\ Len(its) >= Len(item.body.items)

\* ItemsInit as it would be if the matched siblings were not removed.
ItemsInitKeepsSiblings(its, item) == its

\* items_init: with a group of 0 elements items[:-0] is the empty list.
ItemsInit(its, item) ==
    IF GroupCase(its, item)
    THEN (IF Len(item.body.items) = 0 THEN <<>>
          ELSE SubSeq(its, 1, Len(its) - Len(item.body.items)))
    ELSE SubSeq(its, 1, Len(its) - 1)

\* items_tail: with a group of 0 elements items[-0:] is the whole list.
ItemsTail(its, item) ==
    IF GroupCase(its, item)
    THEN (IF Len(item.body.items) = 0 THEN SequenceNode(its)
          ELSE SequenceNode(SubSeq(its, Len(its) - Len(item.body.items) + 1, Len(its))))
    ELSE its[Len(its)]

\* extended_body of the iteration that finds the LoopNode `item` with
\* siblings `its` accumulated.
ExtendedBody(its, item) == exnted_loop_node(ItemsTail(its, item), item.body, item)

\* extended_loop
ExtendedLoop(item, extended_body) ==
    LoopNode(simplify(PlusOneStr(item.size)), item.name, extended_body)

\* One iteration of `while que:`: the branch taken and the new items and que.
Iterate(its, q) ==
    LET item == Head(q)
    IN IF item.kind = "Sequence"
       THEN [branch |-> "flatten", items |-> its, que |-> item.items \o Tail(q)]
       ELSE IF item.kind = "Loop" /\ its # <<>>
       THEN Bind(ExtendedBody(its, item), LAMBDA extended_body :
                IF extended_body # <<>>
                THEN [branch |-> "merge", items |-> ItemsInit(its, item),
                      que |-> <<ExtendedLoop(item, extended_body[1])>> \o Tail(q)]
                ELSE [branch |-> "keep_loop", items |-> Append(its, item),
                      que |-> Tail(q)])
       ELSE [branch |-> "append", items |-> Append(its, item), que |-> Tail(q)]

RECURSIVE RunLoop(_, _)
RunLoop(its, q) ==
    IF q = <<>> THEN its
    ELSE Bind(Iterate(its, q), LAMBDA n : RunLoop(n.items, n.que))

\* The return statement of the Sequence case.
Collapse(its) == IF Len(its) = 1 THEN its[1] ELSE SequenceNode(its)

\* The value of a call that may have raised, handed on: an error ends the caller.
Try(r, Continue(_)) == IF IsError(r) THEN r ELSE Continue(r)

RECURSIVE analyze(_)
RECURSIVE AnalyzeAll(_)
\* list(map(analyze, node.items)); the first error raised ends the call.
\* The value is [kind |-> "List", node |-> the list], or the error.
AnalyzeAll(ns) ==
    IF ns = <<>> THEN [kind |-> "List", node |-> <<>>]
    ELSE Bind(analyze(Head(ns)), LAMBDA h :
            Try(h, LAMBDA x :
                Bind(AnalyzeAll(Tail(ns)), LAMBDA r :
                    Try(r, LAMBDA y : [kind |-> "List", node |-> <<h>> \o r.node]))))

\* The Dots case, from the two analyzed operands.
AnalyzeDots(a, b) ==
    LET used_names == list_used_names(a) \cup list_used_names(b)
    IN Bind(FreshName(used_names, 1), LAMBDA name :
        IF name = "" THEN AssertionError
        ELSE Bind(zip_nodes(a, b, name, <<>>), LAMBDA z :
                IF z.kind # "Ok" THEN z
                ELSE IF z.size = <<>> THEN SyntaxError
                ELSE LoopNode(z.size[1], name, z.node)))

\* [str(simplify(index)) for index in node.indices]
RECURSIVE SimplifyAll(_)
SimplifyAll(raw) ==
    IF raw = <<>> THEN <<>> ELSE <<simplify(Head(raw))>> \o SimplifyAll(Tail(raw))

analyze(n) ==
    CASE n.kind = "ItemP" -> ItemNode(n.name, SimplifyAll(n.indices))
      [] n.kind = "NewlineP" -> NewlineNode
      [] n.kind = "SequenceP" ->
            Bind(AnalyzeAll(n.items), LAMBDA q :
                Try(q, LAMBDA x : Collapse(RunLoop(<<>>, q.node))))
      [] n.kind = "DotsP" ->
            Bind(analyze(n.first), LAMBDA a :
                Try(a, LAMBDA x :
                    Bind(analyze(n.last), LAMBDA b :
                        Try(b, LAMBDA y : AnalyzeDots(a, b)))))

(***************************************************************************)
(* Inputs: parser trees the grammar produces.                              *)
(***************************************************************************)
Num(n) == <<Term(n, "1")>>                                  \* "n"
RawN == <<Term(1, "N")>>                                    \* "N"
RawK1 == <<Term(1, "K"), One>>                              \* "K + 1"
RawI == <<Term(1, "i")>>                                    \* "i"
RawNK2 == <<Term(1, "N"), Term(0 - 1, "K"), Term(2, "1")>>    \* "N - K + 2"

A1(r) == ItemParserNode("A", <<r>>)
A2(r, s) == ItemParserNode("A", <<r, s>>)
PlainI == ItemParserNode("i", <<>>)

\* line : items newline
Line(its) == SequenceParserNode(its \o <<NewlineParserNode>>)

SeqsUpTo(S, n) == UNION {[1..m -> S] : m \in 0..n}

\* The siblings written before a dots pair, and the operands of the pair,
\* in the inputs of the worklist loop.
FoldNums == 1..(MaxPre + 1)
PreItems == {A1(Num(n)) : n \in FoldNums} \cup {A2(Num(1), Num(n)) : n \in FoldNums}
            \cup {PlainI}
FoldFirst == {A1(Num(n)) : n \in FoldNums} \cup {A2(Num(1), Num(n)) : n \in FoldNums}
FoldLast == {A1(RawN), A2(Num(1), RawN), A1(Num(MaxPre + 1))}

\* "A_{r,1} ... A_{r,N}": a line that is one dots pair.
RowLine(r) == Line(<<DotsParserNode(A2(r, Num(1)), A2(r, RawN))>>)

\* One line of items ending in a dots pair: "p1 p2 f ... l".
HorizontalInputs ==
    {Line(pre \o <<DotsParserNode(f, l)>>) :
        pre \in SeqsUpTo(PreItems, MaxPre), f \in FoldFirst, l \in FoldLast}

\* Lines, then a pair of lines around vertical dots.
FoldLines == {Line(<<A1(Num(n))>>) : n \in FoldNums} \cup {RowLine(Num(n)) : n \in FoldNums}
LastLines == {Line(<<A1(RawN)>>), RowLine(RawN)}
VerticalInputs ==
    {SequenceParserNode(pre \o <<DotsParserNode(f, l)>>) :
        pre \in SeqsUpTo(FoldLines, MaxPre), f \in FoldLines, l \in LastLines}

None == [kind |-> "None"]

(***************************************************************************)
(* analyze(node) of a SequenceParserNode, the worklist loop step by step.  *)
(***************************************************************************)
Idle == /\ input = <<>>
        /\ lexpos = 0
        /\ lineno = 1
        /\ stack = <<>>

Init ==
    /\ node \in HorizontalInputs \cup VerticalInputs
    /\ pc = "start"
    /\ que = <<>>
    /\ items = <<>>
    /\ step = ""
    /\ result = None
    /\ Idle

\* items = []; que = list(map(analyze, node.items)), which may raise.
Start ==
    /\ pc = "start"
    /\ \E q \in {AnalyzeAll(node.items)} :
          \/ /\ ~IsError(q)
             /\ que' = q.node
             /\ pc' = "loop"
             /\ result' = result
          \/ /\ IsError(q)
             /\ que' = que
             /\ pc' = "error"
             /\ result' = q
    /\ items' = <<>>
    /\ step' = "start"
    /\ UNCHANGED <<node, input, lexpos, lineno, stack>>

\* The iteration that finds a SequenceNode: its items are spliced into que.
Flatten ==
    /\ pc = "loop"
    /\ que # <<>>
    /\ \E n \in {Iterate(items, que)} :
          /\ n.branch = "flatten"
          /\ items' = n.items
          /\ que' = n.que
    /\ step' = "flatten"
    /\ UNCHANGED <<pc, node, result, input, lexpos, lineno, stack>>

\* The iteration that finds a LoopNode the trailing siblings extend: the
\* siblings are removed and the grown loop is put back on que.
Merge ==
    /\ pc = "loop"
    /\ que # <<>>
    /\ \E n \in {Iterate(items, que)} :
          /\ n.branch = "merge"
          /\ items' = n.items
          /\ que' = n.que
    /\ step' = "merge"
    /\ UNCHANGED <<pc, node, result, input, lexpos, lineno, stack>>

\* The iteration that finds a LoopNode the trailing siblings do not extend.
KeepLoop ==
    /\ pc = "loop"
    /\ que # <<>>
    /\ \E n \in {Iterate(items, que)} :
          /\ n.branch = "keep_loop"
          /\ items' = n.items
          /\ que' = n.que
    /\ step' = "keep_loop"
    /\ UNCHANGED <<pc, node, result, input, lexpos, lineno, stack>>

\* The iteration that finds any other node (or a LoopNode with no sibling).
AppendItem ==
    /\ pc = "loop"
    /\ que # <<>>
    /\ \E n \in {Iterate(items, que)} :
          /\ n.branch = "append"
          /\ items' = n.items
          /\ que' = n.que
    /\ step' = "append"
    /\ UNCHANGED <<pc, node, result, input, lexpos, lineno, stack>>

\* The loop has ended: return items[0] or SequenceNode(items).
Return ==
    /\ pc = "loop"
    /\ que = <<>>
    /\ result' = Collapse(items)
    /\ pc' = "done"
    /\ step' = "return"
    /\ UNCHANGED <<node, que, items, input, lexpos, lineno, stack>>

Next == Start \/ Flatten \/ Merge \/ KeepLoop \/ AppendItem \/ Return

Spec == Init /\ [][Next]_vars

(***************************************************************************)
(* analyze(node) as one call, on dots pairs.                               *)
(***************************************************************************)
DotsExprs == {Num(n) : n \in 1..MaxNum} \cup {RawN, RawK1, RawI, RawNK2}
DotsItems == {A1(r) : r \in DotsExprs} \cup {A2(r, s) : r \in DotsExprs, s \in DotsExprs}
             \cup {PlainI}
NestExprs == {Num(1), Num(2), RawN, RawK1}
NestItems == {A2(r, s) : r \in NestExprs, s \in {Num(1), RawN}}

\* "f ... l", "p f ... l" with its newline, and a pair of such lines around
\* vertical dots.
DotsInputs ==
    {DotsParserNode(f, l) : f \in DotsItems, l \in DotsItems}
    \cup {Line(<<p, DotsParserNode(f, l)>>) :
            p \in {PlainI, A1(Num(1))}, f \in DotsItems, l \in DotsItems}
    \cup {DotsParserNode(Line(<<DotsParserNode(f1, l1)>>), Line(<<DotsParserNode(f2, l2)>>)) :
            f1 \in NestItems, l1 \in NestItems, f2 \in NestItems, l2 \in NestItems}

InitDots ==
    /\ node \in DotsInputs
    /\ pc = "start"
    /\ que = <<>>
    /\ items = <<>>
    /\ step = ""
    /\ result = None
    /\ Idle

\* ast = analyze(parsed): the tree, or the error raised.
AnalyzeCall ==
    /\ pc = "start"
    /\ \E r \in {analyze(node)} :
          /\ result' = r
          /\ pc' = IF IsError(r) THEN "error" ELSE "done"
    /\ step' = "analyze"
    /\ UNCHANGED <<node, que, items, input, lexpos, lineno, stack>>

NextDots == AnalyzeCall

SpecDots == InitDots /\ [][NextDots]_vars

(***************************************************************************)
(* The lexer on the text run() hands it.                                   *)
(***************************************************************************)
Chars == {"A", "1", " ", "\n", "?", "."}
Whitespace == {" ", "\n"}
t_ignore == {" ", "\t", "$"}

\* pre.rstrip()
RECURSIVE rstrip(_)
rstrip(t) ==
    IF t # <<>> /\ t[Len(t)] \in Whitespace THEN rstrip(SubSeq(t, 1, Len(t) - 1)) ELSE t

NoUse == /\ node = None
         /\ que = <<>>
         /\ items = <<>>
         /\ step = ""

\* pre = pre.rstrip() + '\n'; lexer.input(pre)
InitLex ==
    /\ \E pre \in SeqsUpTo(Chars, MaxLen) : input = rstrip(pre) \o <<"\n">>
    /\ lexpos = 0
    /\ lineno = 1
    /\ pc = "lex"
    /\ result = None
    /\ stack = <<>>
    /\ NoUse

\* The character at lexpos (lexdata[lexpos]).
Cur == input[lexpos + 1]

\* The end (0-based, exclusive) of the maximal run of characters of class C
\* that starts at position p.
RECURSIVE RunEnd(_, _)
RunEnd(p, C) == IF p < Len(input) /\ input[p + 1] \in C THEN RunEnd(p + 1, C) ELSE p

\* t_NEWLINE: t.lexer.lineno += 1
LexNewline ==
    /\ pc = "lex" /\ lexpos < Len(input)
    /\ Cur = "\n"
    /\ lineno' = lineno + 1
    /\ lexpos' = lexpos + 1
    /\ UNCHANGED <<pc, node, que, items, step, result, input, stack>>

\* A character of t_ignore is skipped.
LexIgnore ==
    /\ pc = "lex" /\ lexpos < Len(input)
    /\ Cur \in t_ignore
    /\ lexpos' = lexpos + 1
    /\ UNCHANGED <<pc, node, que, items, step, result, input, lineno, stack>>

\* t_IDENT, t_NUMBER: a maximal run of letters or of digits; t_DOTS: two
\* dots and all the dots that follow.
LexToken ==
    /\ pc = "lex" /\ lexpos < Len(input)
    /\ \/ Cur = "A" /\ lexpos' = RunEnd(lexpos, {"A"})
       \/ Cur = "1" /\ lexpos' = RunEnd(lexpos, {"1"})
       \/ /\ Cur = "."
          /\ RunEnd(lexpos, {"."}) >= lexpos + 2
          /\ lexpos' = RunEnd(lexpos, {"."})
    /\ UNCHANGED <<pc, node, que, items, step, result, input, lineno, stack>>

\* t_error: raise LexerError(... t.value[0], t.lineno, t.lexpos)
t_error ==
    /\ pc = "lex" /\ lexpos < Len(input)
    /\ Cur \notin {"\n", "A", "1"} \cup t_ignore
    /\ ~(Cur = "." /\ RunEnd(lexpos, {"."}) >= lexpos + 2)
    /\ result' = [kind |-> "LexerError", char |-> Cur, line |-> lineno, column |-> lexpos]
    /\ pc' = "error"
    /\ UNCHANGED <<node, que, items, step, input, lexpos, lineno, stack>>

\* The text is exhausted.
LexEnd ==
    /\ pc = "lex" /\ lexpos = Len(input)
    /\ pc' = "done"
    /\ UNCHANGED <<node, que, items, step, result, input, lexpos, lineno, stack>>

NextLex == LexNewline \/ LexIgnore \/ LexToken \/ t_error \/ LexEnd

SpecLex == InitLex /\ [][NextLex]_vars

\* find_column(lexpos): input.rfind('\n', 0, lexpos) is the 0-based position
\* of the last newline before lexpos, or -1.
RECURSIVE rfind_newline(_)
rfind_newline(p) ==
    IF p = 0 THEN 0 - 1
    ELSE IF input[p] = "\n" THEN p - 1
    ELSE rfind_newline(p - 1)

find_column(p) == p - (rfind_newline(p) + 1) + 1

(***************************************************************************)
(* The LR parser on the tokens of one line, `items NEWLINE`, with the      *)
(* reductions p_item, p_items, p_newline and p_line.  A stack entry is     *)
(* [sym, val]: the grammar symbol and the value yacc keeps for it (a       *)
(* parser node, or the str of a terminal).                                 *)
(***************************************************************************)
IdentTokens == {"A", "B"}
DotsToken == "..."
NewlineToken == "NEWLINE"

PyStr(v) == [kind |-> "str", value |-> v]
AttributeError == [kind |-> "AttributeError"]
ParserError(tok) == [kind |-> "ParserError", token |-> tok]

Entry(sym, val) == [sym |-> sym, val |-> val]

InitParse ==
    /\ \E ts \in UNION {[1..m -> IdentTokens \cup {DotsToken}] : m \in 1..MaxTok} :
          input = ts \o <<NewlineToken>>
    /\ lexpos = 0
    /\ lineno = 1
    /\ pc = "parse"
    /\ result = None
    /\ stack = <<>>
    /\ NoUse

\* The lookahead token.
Lookahead == input[lexpos + 1]

Top(n) == stack[Len(stack) + 1 - n]
TopSym(n) == IF Len(stack) >= n THEN Top(n).sym ELSE ""

\* p_item, production `item : IDENT`, reduced as soon as the IDENT is shifted.
p_item(name) == ItemParserNode(name, <<>>)

\* An IDENT may start the line, follow an item, or follow DOTS.
ShiftItem ==
    /\ pc = "parse"
    /\ Lookahead \in IdentTokens
    /\ TopSym(1) \in {"", "item", "DOTS"}
    /\ stack' = Append(stack, Entry("item", p_item(Lookahead)))
    /\ lexpos' = lexpos + 1
    /\ UNCHANGED <<pc, node, que, items, step, result, input, lineno>>

\* DOTS is shifted after the first item of an `items`, not after the item
\* that follows a DOTS.
ShiftDots ==
    /\ pc = "parse"
    /\ Lookahead = DotsToken
    /\ TopSym(1) = "item" /\ TopSym(2) # "DOTS"
    /\ stack' = Append(stack, Entry("DOTS", PyStr(DotsToken)))
    /\ lexpos' = lexpos + 1
    /\ UNCHANGED <<pc, node, que, items, step, result, input, lineno>>

\* p_error: the lookahead fits no production.
p_error ==
    /\ pc = "parse"
    /\ \/ Lookahead = DotsToken /\ ~(TopSym(1) = "item" /\ TopSym(2) # "DOTS")
       \/ Lookahead = NewlineToken /\ TopSym(1) \in {"", "DOTS"}
    /\ result' = ParserError(Lookahead)
    /\ pc' = "error"
    /\ UNCHANGED <<node, que, items, step, input, lexpos, lineno, stack>>

\* The number of stack entries the reduction to `items` pops when the
\* lookahead is NEWLINE: the right-hand side of the production.
RhsLen ==
    IF TopSym(1) = "item" THEN (IF TopSym(2) = "DOTS" THEN 3 ELSE 1)
    ELSE IF TopSym(1) = "items" /\ TopSym(2) = "item"
    THEN (IF TopSym(3) = "DOTS" THEN 4 ELSE 2)
    ELSE 0

\* x.items: the attribute of a parser node; a str has none.
ItemsOf(x) ==
    IF x.kind = "SequenceP" THEN [kind |-> "List", node |-> x.items] ELSE AttributeError

\* SequenceParserNode(items=[head] + x.items), unless x.items raised.
ConsItems(head, x) ==
    Bind(ItemsOf(x), LAMBDA r :
        IF r.kind = "AttributeError" THEN r ELSE SequenceParserNode(<<head>> \o r.node))

\* p_items: p[1..] are the values of the right-hand side, len(p) is one more.
p_items(p) ==
    IF Len(p) + 1 = 5
    THEN ConsItems(DotsParserNode(p[1], p[3]), p[2])
    ELSE IF Len(p) + 1 = 4
    THEN SequenceParserNode(<<DotsParserNode(p[1], p[3])>>)
    ELSE IF Len(p) + 1 = 3
    THEN ConsItems(p[1], p[2])
    ELSE SequenceParserNode(<<p[1]>>)

\* The values of the top n stack entries, bottom first.
TopVals(n) == [k \in 1..n |-> stack[Len(stack) - n + k].val]

\* A reduction by one of the productions of `items`.
ReduceItems ==
    /\ pc = "parse"
    /\ Lookahead = NewlineToken
    /\ RhsLen > 0
    /\ \E v \in {p_items(TopVals(RhsLen))} :
          \/ /\ v.kind # "AttributeError"
             /\ stack' = Append(SubSeq(stack, 1, Len(stack) - RhsLen), Entry("items", v))
             /\ UNCHANGED <<pc, result>>
          \/ /\ v.kind = "AttributeError"
             /\ result' = v
             /\ pc' = "error"
             /\ UNCHANGED stack
    /\ UNCHANGED <<node, que, items, step, input, lexpos, lineno>>

\* p_newline and p_line: SequenceParserNode(items=p[1].items + [p[2]])
p_line(p) == SequenceParserNode(p[1].items \o <<p[2]>>)

\* NEWLINE is shifted once the stack is a single `items`; the line is reduced.
ReduceLine ==
    /\ pc = "parse"
    /\ Lookahead = NewlineToken
    /\ Len(stack) = 1 /\ TopSym(1) = "items"
    /\ result' = p_line(<<Top(1).val, NewlineParserNode>>)
    /\ pc' = "done"
    /\ lexpos' = lexpos + 1
    /\ UNCHANGED <<node, que, items, step, input, lineno, stack>>

NextParse == ShiftItem \/ ShiftDots \/ p_error \/ ReduceItems \/ ReduceLine

SpecParse == InitParse /\ [][NextParse]_vars

(***************************************************************************)
(* What the trees denote: exact integer-linear arithmetic on the           *)
(* expressions, and the substitution of a number for a loop counter.       *)
(***************************************************************************)
Plus(a, b) == [x \in Keys |-> a[x] + b[x]]
Minus(a, b) == [x \in Keys |-> a[x] - b[x]]
Const(n) == [Zero EXCEPT !["1"] = n]

\* e with the number v put for the identifier name.
Subst(e, name, v) == [x \in Keys |-> IF x = name THEN 0
                                     ELSE IF x = "1" THEN e["1"] + e[name] * v
                                     ELSE e[x]]

RECURSIVE SubstNode(_, _, _)
SubstNode(n, name, v) ==
    CASE n.kind = "Item" ->
            ItemNode(n.name, [k \in 1..Len(n.indices) |-> Subst(n.indices[k], name, v)])
      [] n.kind = "Newline" -> n
      [] n.kind = "Sequence" ->
            SequenceNode([k \in 1..Len(n.items) |-> SubstNode(n.items[k], name, v)])
      [] n.kind = "Loop" -> LoopNode(n.size, n.name, SubstNode(n.body, name, v))

\* The trip counts b - a + 1 that the index positions differing between
\* the parallel trees a and b imply.
RECURSIVE Strides(_, _)
Strides(a, b) ==
    IF a.kind = "Item" /\ b.kind = "Item" /\ Len(a.indices) = Len(b.indices)
    THEN {Plus(Minus(b.indices[k], a.indices[k]), Const(1)) :
            k \in {x \in 1..Len(a.indices) : a.indices[x] # b.indices[x]}}
    ELSE IF a.kind = "Sequence" /\ b.kind = "Sequence" /\ Len(a.items) = Len(b.items)
    THEN UNION {Strides(a.items[k], b.items[k]) : k \in 1..Len(a.items)}
    ELSE IF a.kind = "Loop" /\ b.kind = "Loop"
    THEN Strides(a.body, b.body)
    ELSE {}

\* The LoopNodes of a tree, each with the counters of the loops around it.
RECURSIVE LoopsIn(_, _)
LoopsIn(n, outer) ==
    CASE n.kind = "Loop" ->
            {[loop |-> n, outer |-> outer]} \cup LoopsIn(n.body, outer \cup {n.name})
      [] n.kind = "Sequence" -> UNION {LoopsIn(n.items[k], outer) : k \in 1..Len(n.items)}
      [] OTHER -> {}

\* The names of the items of a tree.
RECURSIVE ItemNames(_)
ItemNames(n) ==
    CASE n.kind = "Item" -> {n.name}
      [] n.kind = "Sequence" -> UNION {ItemNames(n.items[k]) : k \in 1..Len(n.items)}
      [] n.kind = "Loop" -> ItemNames(n.body)
      [] OTHER -> {}

\* The analyzed operands of the dots pair handed to analyze.
FirstOperand == analyze(node.first)
LastOperand == analyze(node.last)

(***************************************************************************)
(* Claims about analyze on dots pairs (SpecDots).                          *)
(***************************************************************************)

\* C2: for a dots pair of two items, the trip count stored as LoopNode.size
\* is b - a + 1 for every index position where the first index a and the
\* last index b differ.
C2_TripCountIsLastMinusFirstPlusOne ==
    (pc = "done" /\ node.kind = "DotsP" /\ node.first.kind = "ItemP") =>
        \A c \in Strides(FirstOperand, LastOperand) : result.size = c

C4_SizeNeverMentionsCounter ==
    pc = "done" => \A l \in LoopsIn(result, {}) : l.loop.size[l.loop.name] = 0

\* C5: in every tree analyze returns, the counter of each LoopNode differs
\* from every item name of the input and from the counter of every LoopNode
\* around it.
C5_CounterIsFresh ==
    pc = "done" =>
        \A l \in LoopsIn(result, {}) :
            /\ l.loop.name \notin ItemNames(result)
            /\ l.loop.name \notin l.outer

(***************************************************************************)
(* Claims about the worklist loop (Spec).                                  *)
(***************************************************************************)
\* The input is some siblings, one dots pair, and what follows the pair.
DotsAt == CHOOSE k \in 1..Len(node.items) : node.items[k].kind = "DotsP"
PreOf == SubSeq(node.items, 1, DotsAt - 1)
PostOf == SubSeq(node.items, DotsAt + 1, Len(node.items))
DotsLoop == analyze(node.items[DotsAt])

\* Every group written before the dots pair is the loop body taken t steps
\* back, t = 1 for the group next to the pair.
AllConsistent ==
    \A t \in 1..Len(PreOf) :
        analyze(PreOf[Len(PreOf) + 1 - t]) = SubstNode(DotsLoop.body, DotsLoop.name, 0 - t)

FoldAttempt == pc = "loop" /\ que # <<>> /\ Head(que).kind = "Loop" /\ items # <<>>

\* cand and the loop body match: same kinds, names and arities, and every
\* index of cand is the body's index one step before the start.
RECURSIVE Matches(_, _, _)
Matches(a, b, name) ==
    IF a.kind = "Item" /\ b.kind = "Item"
    THEN /\ a.name = b.name
         /\ Len(a.indices) = Len(b.indices)
         /\ \A k \in 1..Len(a.indices) : a.indices[k] = Subst(b.indices[k], name, 0 - 1)
    ELSE IF a.kind = "Newline" /\ b.kind = "Newline" THEN TRUE
    ELSE IF a.kind = "Sequence" /\ b.kind = "Sequence"
    THEN /\ Len(a.items) = Len(b.items)
         /\ \A k \in 1..Len(a.items) : Matches(a.items[k], b.items[k], name)
    ELSE IF a.kind = "Loop" /\ b.kind = "Loop"
    THEN a.size = b.size /\ a.name = b.name /\ Matches(a.body, b.body, name)
    ELSE FALSE

\* c is cand reindexed as a whole: the same tree with the counter added to
\* every index.
RECURSIVE Reindexed(_, _, _)
Reindexed(a, c, name) ==
    /\ c.kind = a.kind
    /\ CASE a.kind = "Item" ->
               /\ c.name = a.name
               /\ Len(c.indices) = Len(a.indices)
               /\ \A k \in 1..Len(a.indices) :
                      c.indices[k] = Plus(a.indices[k], [Zero EXCEPT ![name] = 1])
         [] a.kind = "Sequence" ->
               /\ Len(c.items) = Len(a.items)
               /\ \A k \in 1..Len(a.items) : Reindexed(a.items[k], c.items[k], name)
         [] a.kind = "Loop" ->
               c.size = a.size /\ c.name = a.name /\ Reindexed(a.body, c.body, name)
         [] OTHER -> TRUE

\* C6: exnted_loop_node returns a complete reindexed body when cand matches
\* the loop body and None on any mismatch; when it returns None, analyze
\* leaves the accumulated siblings as they are and appends the LoopNode
\* unchanged after them.
C6_ExtendAllOrNothing ==
    [][FoldAttempt =>
        \E ext \in {ExtendedBody(items, Head(que))} :
           \/ /\ ext = <<>>
              /\ ~Matches(ItemsTail(items, Head(que)), Head(que).body, Head(que).name)
              /\ items' = Append(items, Head(que))
              /\ que' = Tail(que)
              /\ pc' = "loop"
           \/ /\ ext # <<>>
              /\ Matches(ItemsTail(items, Head(que)), Head(que).body, Head(que).name)
              /\ Reindexed(ItemsTail(items, Head(que)), ext[1], Head(que).name)]_vars

\* An extension failed on a name mismatch with siblings accumulated, and the
\* LoopNode was appended after them.
C6_Witness ==
    /\ step = "keep_loop"
    /\ Len(items) >= 3
    /\ items[Len(items)].kind = "Loop"
    /\ items[Len(items) - 1].kind = "Item"
    /\ items[Len(items) - 1].name # items[Len(items)].body.name

RECURSIVE Weight(_)
RECURSIVE WeightAll(_)
WeightAll(ns) == IF ns = <<>> THEN 0 ELSE Weight(Head(ns)) + WeightAll(Tail(ns))
Weight(n) == IF n.kind = "Sequence" THEN 1 + WeightAll(n.items) ELSE 1

\* What is left of the worklist loop's work.
Measure(its, q) == 2 * WeightAll(q) + Len(its)

\* C10: the worklist loop terminates: every iteration splices a
\* SequenceNode into que, moves one node from que to items, or replaces at
\* least one accumulated sibling and the queued LoopNode by one grown
\* LoopNode.  Each of the three makes Measure, a natural number, strictly
\* smaller, so no run iterates forever, and while the call is in the loop
\* it can take its next step.
C10_WorklistTerminates ==
    /\ [](pc = "loop" => ENABLED Next)
    /\ [][(pc = "loop" /\ que # <<>>) =>
            /\ Measure(items', que') < Measure(items, que)
            /\ \/ /\ Head(que).kind = "Sequence"
                  /\ que' = Head(que).items \o Tail(que)
                  /\ items' = items
               \/ /\ que' = Tail(que)
                  /\ items' = Append(items, Head(que))
               \/ /\ Head(que).kind = "Loop"
                  /\ Len(items') < Len(items)
                  /\ Len(que') = Len(que)
                  /\ Head(que').kind = "Loop"
                  /\ Tail(que') = Tail(que)]_vars

\* A grown loop was put back on que, grew again, and the loop ended.
C10_Witness ==
    /\ pc = "done"
    /\ Len(PreOf) = MaxPre
    /\ Len(items) = 1 + Len(PostOf)
    /\ items[1].kind = "Loop"

(***************************************************************************)
(* Claim about the lexer (SpecLex).                                        *)
(***************************************************************************)
\* The number of newlines before position p.
RECURSIVE NewlinesBefore(_)
NewlinesBefore(p) ==
    IF p = 0 THEN 0 ELSE (IF input[p] = "\n" THEN 1 ELSE 0) + NewlinesBefore(p - 1)

\* C7: the LexError carries the offending character, its 1-based line and
\* its 1-based column within that line.
C7_LexErrorCarriesLineAndColumn ==
    (pc = "error" /\ result.kind = "LexerError") =>
        /\ result.char = Cur
        /\ result.line = NewlinesBefore(lexpos) + 1
        /\ result.column = find_column(lexpos)

(***************************************************************************)
(* Claim about the parser (SpecParse).                                     *)
(***************************************************************************)
\* The tokens of the line without its NEWLINE.
LineTokens == SubSeq(input, 1, Len(input) - 1)

\* The items the grammar derives from a token list:
\* items := item HDOTS item items | item HDOTS item | item items | item
RECURSIVE Derives(_)
Derives(ts) ==
    /\ ts # <<>>
    /\ ts[1] \in IdentTokens
    /\ \/ Len(ts) = 1
       \/ Len(ts) >= 3 /\ ts[2] = DotsToken /\ ts[3] \in IdentTokens
            /\ (Len(ts) = 3 \/ Derives(SubSeq(ts, 4, Len(ts))))
       \/ Len(ts) >= 2 /\ ts[2] # DotsToken /\ Derives(Tail(ts))

RECURSIVE ItemsTree(_)
ItemsTree(ts) ==
    IF Len(ts) >= 3 /\ ts[2] = DotsToken
    THEN <<DotsParserNode(p_item(ts[1]), p_item(ts[3]))>>
         \o (IF Len(ts) = 3 THEN <<>> ELSE ItemsTree(SubSeq(ts, 4, Len(ts))))
    ELSE <<p_item(ts[1])>> \o (IF Len(ts) = 1 THEN <<>> ELSE ItemsTree(Tail(ts)))

\* A dots pair of items is followed by a further item on the line.
DotsThenItems ==
    \E d \in 1..(Len(LineTokens) - 3) :
        /\ LineTokens[d] \in IdentTokens
        /\ LineTokens[d + 1] = DotsToken
        /\ LineTokens[d + 2] \in IdentTokens
        /\ LineTokens[d + 3] \in IdentTokens

\* C9: a line in which a dots pair is followed by further items reduces to
\* the Sequence of Dots(first, last) and the following items in order, or
\* ends in a ParserError, never in another failure.
C9_DotsThenItemsReduces ==
    (pc \in {"done", "error"} /\ DotsThenItems) =>
        \/ result.kind = "ParserError" /\ ~Derives(LineTokens)
        \/ /\ pc = "done"
           /\ Derives(LineTokens)
           /\ result = Line(ItemsTree(LineTokens))

====
